---------------------------- MODULE Spec2Model ----------------------------
(***************************************************************************)
(* A model of src/translation.py: the streaming segmentation and          *)
(* translation pipeline of the dual-language subtitle window.              *)
(*                                                                         *)
(*   Spec       the subtitle tracker (DraggableSubtitleWindow) and the     *)
(*              translation workers (TranslationWorker), connected by the  *)
(*              Qt event queue of the GUI thread and by set_model          *)
(*   SpecSeg    the voice-activity state machine of                        *)
(*              WhisperSpeechRecognizer._process_audio_stream              *)
(*   SpecClean  the pure function TranslationWorker._clean_translation     *)
(*   SpecRec    start/stop of recogniser threads by toggle_recording       *)
(*   SpecLive   Spec under the fairness of the GUI and worker threads      *)
(*   SpecSpeech WhisperSpeechRecognizer._process_speech, its temporary     *)
(*              audio files and the text_recognized it emits               *)
(*   SpecPrompt the request TranslationWorker._process_translation builds  *)
(*   SpecCapture audio_callback and the loop around self.audio_queue       *)
(*                                                                         *)
(* Text is a sequence of characters; a character is a one-character string *)
(* for ASCII and "U+XXXX" for any other code point.                        *)
(***************************************************************************)
EXTENDS Integers, Sequences, FiniteSets, TLC

VARIABLES
    \* ---- DraggableSubtitleWindow (src/translation.py:405-422)
    previous_subtitle,   \* self.previous_subtitle
    current_subtitle,    \* self.current_subtitle
    model_name,          \* self.model_name
    translation_worker,  \* self.translation_worker: index into workers
    gui_pc,              \* where the GUI thread is: "idle", or inside set_model's wait
    gui_events,          \* queued signal deliveries to the GUI thread, in order
    \* ---- TranslationWorker objects ever created (src/translation.py:303-308)
    workers,             \* sequence of [model_name, request_queue, is_running, pc, task]
    \* ---- history of the translation pipeline (not program state)
    n_recognized,        \* text_recognized signals emitted so far; numbers the utterances
    n_set_model,         \* set_model calls so far
    cur_id,              \* number of the utterance in the current slot, 0 if none
    wrote_by,            \* utterance whose result last changed current.translation, 0 if none
    wrote_text,          \* original text carried by that result
    last_handled,        \* the last result event handled by the GUI thread
    accepted,            \* utterance numbers accepted by add_translation_task
    result_log,          \* utterance numbers of the result signals emitted, in order
    recognized,          \* the (text, language) of each text_recognized emitted, in order
    failed,              \* utterance numbers for which translation_failed was emitted
    \* ---- WhisperSpeechRecognizer segmentation state (src/translation.py:43-51)
    audio_buffer,        \* self.audio_buffer: the buffered frames, by ordinal
    silence_frames,      \* self.silence_frames
    is_speaking,         \* self.is_speaking
    \* ---- history of the segmenter (not program state)
    n_frames,            \* frames taken from audio_queue so far
    utterances,          \* number of _process_speech calls made by the loop
    emitted,             \* frames handed to _process_speech by the last step, <<>> if none
    last_closure,        \* rule by which the last step closed an utterance: "silence",
                         \* "max", "short", "timeout"; "none" if it closed none
    ever_loud,           \* some frame so far had volume > silence_threshold
    run_shape,           \* "loud", "quiet" while the input is loud^D quiet^S; else "other"
    run_D,               \* D of that input
    run_S,               \* S of that input
    run_low,             \* that input met the short-utterance rule at some silence frame
    carry,               \* at the last Idle -> Speaking step, the frames retained in
                         \* the buffer were: "none" (there were none), "kept", "lost"
    \* ---- _clean_translation under test
    cl_in,               \* the argument of the first call
    cl_first,            \* result of _clean_translation(cl_in)
    cl_second,           \* result of _clean_translation(cl_first)
    cl_removed,          \* list positions of the prefixes the first call removed, in order
    cl_calls,            \* calls made so far: 0, 1, 2
    \* ---- recording control (src/translation.py:406, 417, 617-664)
    is_recording,        \* self.is_recording
    speech_recognizer,   \* self.speech_recognizer: index into recognizers, 0 for None
    recognizers,         \* sequence of [is_running, pc, acquired]
    togglers,            \* per calling thread: [pc, target] inside toggle_recording
    probe,               \* per calling thread: what check_ollama_availability returned
                         \* in its call of start_recording: "none", "ok", "failed"
    \* ---- _process_speech and the temporary files (src/translation.py:218-262)
    temp_files,          \* names of the temporary audio files that exist on disk
    temp_path,           \* temp_path of the call in progress or last returned, 0 if unset
    speech_pc,           \* "idle", or where the call is: "created", "written"
    n_speech,            \* calls of _process_speech so far; names the temporary file
    speech_signals,      \* (text, language) of the text_recognized signals emitted
    transcribed,         \* what model.transcribe did in each call so far (history)
    \* ---- _process_translation building its request (src/translation.py:334-345)
    pt_task,             \* the (text, source_language) it was called with
    pt_payload,          \* the payload it built, NoPayload before
    \* ---- audio_callback and the loop's audio_queue (src/translation.py:59-65, 109-112)
    audio_queue,         \* self.audio_queue: frames put and not yet got, by ordinal
    capture_running,     \* the recogniser's _is_running
    capture_pc,          \* the recogniser thread: "loop", "transcribing", "exited"
    n_captured,          \* frames the device has handed to audio_callback
    consumed,            \* frames the loop has got from audio_queue, in order
    captured_running,    \* frames handed to audio_callback while _is_running (history)
    busy_frames          \* frames handed to it during a transcription (history)

vars == << previous_subtitle, current_subtitle, model_name, translation_worker,
           gui_pc, gui_events, workers, n_recognized, n_set_model, cur_id,
           wrote_by, wrote_text, last_handled, accepted, result_log,
           recognized, failed,
           audio_buffer, silence_frames, is_speaking, n_frames,
           utterances, emitted, last_closure, ever_loud,
           run_shape, run_D, run_S, run_low, carry,
           cl_in, cl_first, cl_second, cl_removed, cl_calls,
           is_recording, speech_recognizer, recognizers, togglers, probe,
           temp_files, temp_path, speech_pc, n_speech, speech_signals, transcribed,
           pt_task, pt_payload,
           audio_queue, capture_running, capture_pc, n_captured, consumed,
           captured_running, busy_frames >>

pipeline_vars == << previous_subtitle, current_subtitle, model_name,
                    translation_worker, gui_pc, gui_events, workers,
                    n_recognized, n_set_model, cur_id, wrote_by, wrote_text,
                    last_handled, accepted, result_log, recognized, failed >>

seg_vars == << audio_buffer, silence_frames, is_speaking, n_frames,
               utterances, emitted, last_closure, ever_loud,
               run_shape, run_D, run_S, run_low, carry >>

clean_vars == << cl_in, cl_first, cl_second, cl_removed, cl_calls >>

rec_vars == << is_recording, speech_recognizer, recognizers, togglers, probe >>

speech_vars == << temp_files, temp_path, speech_pc, n_speech, speech_signals,
                  transcribed >>

prompt_vars == << pt_task, pt_payload >>

capture_vars == << audio_queue, capture_running, capture_pc, n_captured, consumed,
                   captured_running, busy_frames >>

---------------------------------------------------------------------------
(* Bounds of the model.                                                    *)

MaxUtterances == 2      \* recognitions per behaviour of Spec
MaxSetModel == 1        \* set_model calls per behaviour of Spec
MaxPieces == 3          \* pieces concatenated into an input of _clean_translation
MaxFrames == 130        \* frames per behaviour of SpecSeg
MaxEmit == 2            \* utterances per behaviour of SpecSeg
MaxRecognizers == 2     \* recogniser threads per behaviour of SpecRec
MaxSpeech == 3          \* calls of _process_speech per behaviour of SpecSpeech

---------------------------------------------------------------------------
(* Text helpers: Python's str.strip and str.startswith.                    *)

Whitespace == {" ", "\t", "\n", "U+3000"}

RECURSIVE LStrip(_)
LStrip(s) ==
    IF s /= <<>> /\ Head(s) \in Whitespace THEN LStrip(Tail(s)) ELSE s

RECURSIVE RStrip(_)
RStrip(s) ==
    IF s /= <<>> /\ s[Len(s)] \in Whitespace
    THEN RStrip(SubSeq(s, 1, Len(s) - 1))
    ELSE s

Strip(s) == RStrip(LStrip(s))

StartsWith(s, p) == Len(s) >= Len(p) /\ SubSeq(s, 1, Len(p)) = p

DropPrefix(s, p) == SubSeq(s, Len(p) + 1, Len(s))

---------------------------------------------------------------------------
(* TranslationWorker._clean_translation (src/translation.py:377-394).      *)

remove_prefixes == <<
    <<"U+4EE5", "U+4E0B", "U+82F1", "U+6587", "U+7FFB", "U+8BD1", "U+6210", "U+4E2D", "U+6587", "U+FF1A">>,
    <<"U+4EE5", "U+4E0B", "U+4E2D", "U+6587", "U+7FFB", "U+8BD1", "U+6210", "U+82F1", "U+6587", "U+FF1A">>,
    <<"U+7FFB", "U+8BD1", "U+FF1A">>,
    <<"T", "r", "a", "n", "s", "l", "a", "t", "i", "o", "n", ":">>,
    <<":">>,
    <<"U+FF1A">>,
    <<"T", "r", "a", "n", "s", "l", "a", "t", "e", " ", "t", "h", "i", "s", " ", "E", "n", "g", "l", "i", "s", "h", " ", "t", "o", " ", "C", "h", "i", "n", "e", "s", "e", ":">>,
    <<"T", "r", "a", "n", "s", "l", "a", "t", "e", " ", "t", "h", "i", "s", " ", "C", "h", "i", "n", "e", "s", "e", " ", "t", "o", " ", "E", "n", "g", "l", "i", "s", "h", ":">>,
    <<"T", "r", "a", "n", "s", "l", "a", "t", "e", " ", "t", "o", " ", "C", "h", "i", "n", "e", "s", "e", ":">>,
    <<"T", "r", "a", "n", "s", "l", "a", "t", "e", " ", "t", "o", " ", "E", "n", "g", "l", "i", "s", "h", ":">>,
    <<"U+4E2D", "U+6587", "U+7FFB", "U+8BD1", "U+FF1A">>,
    <<"U+82F1", "U+6587", "U+7FFB", "U+8BD1", "U+FF1A">>,
    <<"H", "e", "r", "e", " ", "i", "s", " ", "t", "h", "e", " ", "t", "r", "a", "n", "s", "l", "a", "t", "i", "o", "n", ":">>,
    <<"T", "h", "e", " ", "t", "r", "a", "n", "s", "l", "a", "t", "i", "o", "n", " ", "i", "s", ":">>,
    <<"U+597D", "U+7684", "U+FF0C">>,
    <<"O", "k", "a", "y", ",">>,
    <<"U+55EF", "U+FF0C">>,
    <<"C", "e", "r", "t", "a", "i", "n", "l", "y", ",">> >>

\* The loop "for prefix in remove_prefixes" from list position i on, on the
\* running value t; removed collects the positions whose prefix was removed.
RECURSIVE CleanLoop(_, _, _)
CleanLoop(t, i, removed) ==
    IF i > Len(remove_prefixes)
    THEN [text |-> t, removed |-> removed]
    ELSE IF StartsWith(t, remove_prefixes[i])
         THEN CleanLoop(Strip(DropPrefix(t, remove_prefixes[i])), i + 1,
                        Append(removed, i))
         ELSE CleanLoop(t, i + 1, removed)

\* The loop with a break after the first removal.
RECURSIVE CleanLoopBreak(_, _, _)
CleanLoopBreak(t, i, removed) ==
    IF i > Len(remove_prefixes)
    THEN [text |-> t, removed |-> removed]
    ELSE IF StartsWith(t, remove_prefixes[i])
         THEN [text |-> Strip(DropPrefix(t, remove_prefixes[i])),
               removed |-> Append(removed, i)]
         ELSE CleanLoopBreak(t, i + 1, removed)

\* The loop testing "prefix in translation" instead of startswith.
RECURSIVE Contains(_, _)
Contains(s, p) ==
    IF Len(s) < Len(p) THEN FALSE
    ELSE StartsWith(s, p) \/ Contains(Tail(s), p)

RECURSIVE CleanLoopContains(_, _, _)
CleanLoopContains(t, i, removed) ==
    IF i > Len(remove_prefixes)
    THEN [text |-> t, removed |-> removed]
    ELSE IF Contains(t, remove_prefixes[i])
         THEN CleanLoopContains(Strip(DropPrefix(t, remove_prefixes[i])), i + 1,
                                Append(removed, i))
         ELSE CleanLoopContains(t, i + 1, removed)

CleanTraceBreak(translation) ==
    LET r == CleanLoopBreak(translation, 1, <<>>)
    IN  [text |-> Strip(r.text), removed |-> r.removed]

CleanTraceContains(translation) ==
    LET r == CleanLoopContains(translation, 1, <<>>)
    IN  [text |-> Strip(r.text), removed |-> r.removed]

\* _clean_translation, with the positions of the prefixes it removed.
CleanTrace(translation) ==
    LET r == CleanLoop(translation, 1, <<>>)
    IN  [text |-> Strip(r.text), removed |-> r.removed]

clean_translation(translation) == CleanTrace(translation).text

---------------------------------------------------------------------------
(* The subtitle tracker: DraggableSubtitleWindow's two slots and the three *)
(* slots connected to the worker threads' signals.                         *)

\* "🔄 翻译中..." (src/translation.py:579) and "❌ 翻译失败" (src/translation.py:598)
PendingMarker == <<"U+1F504", " ", "U+7FFB", "U+8BD1", "U+4E2D", ".", ".", ".">>
FailureMarker == <<"U+274C", " ", "U+7FFB", "U+8BD1", "U+5931", "U+8D25">>

EmptySubtitle == [original |-> <<>>, translation |-> <<>>, language |-> ""]

\* Recognised texts (stripped, longer than one character: src/translation.py:242-254)
Texts == { <<"f", "i", "r", "s", "t">>, <<"U+7B2C", "U+4E8C">> }
Langs == {"zh", "en"}
\* What the recogniser may emit: a text with the language detected for it.
Recognitions == { << <<"f", "i", "r", "s", "t">>, "en" >>, << <<"U+7B2C", "U+4E8C">>, "zh" >> }
Models == {"qwen2.5:3b", "deepseek-r1:7b"}

\* What the endpoint may answer in its "response" field.
Responses == { <<"T", "r", "a", "n", "s", "l", "a", "t", "i", "o", "n", ":", " ", "h", "i">> }
Outcomes == {"ok", "http_error", "timeout", "connection_error", "exception"}

\* on_speech_recognized without the copy of the current entry
recognized_previous_kept(prev, cur) == prev

\* on_speech_recognized, lines 574-575: the new value of previous_subtitle
recognized_previous(prev, cur) ==
    IF cur.original /= <<>> THEN cur ELSE prev

\* on_speech_recognized, lines 577-581: the new value of current_subtitle
recognized_current(text, detected_language) ==
    [original |-> text, translation |-> PendingMarker, language |-> detected_language]

\* on_translation_finished without the staleness test
on_translation_finished_unguarded(cur, original_text, translated_text) ==
    [cur EXCEPT !.translation = translated_text]

\* on_translation_finished that stores the result's own text with it
on_translation_finished_rewrites(cur, original_text, translated_text) ==
    [cur EXCEPT !.original = original_text, !.translation = translated_text]

\* on_translation_finished: the new value of current_subtitle
on_translation_finished(cur, original_text, translated_text) ==
    IF cur.original = original_text
    THEN [cur EXCEPT !.translation = translated_text]
    ELSE cur

\* on_translation_failed without the staleness test
on_translation_failed_unguarded(cur, original_text) ==
    [cur EXCEPT !.translation = FailureMarker]

\* on_translation_failed that never writes
on_translation_failed_ignored(cur, original_text) == cur

\* on_translation_failed: the new value of current_subtitle
on_translation_failed(cur, original_text) ==
    IF cur.original = original_text
    THEN [cur EXCEPT !.translation = FailureMarker]
    ELSE cur

---------------------------------------------------------------------------
(* TranslationWorker: one record per object ever created.                  *)
(*   pc = "loop"     at the top of run()'s while loop, or inside get()     *)
(*   pc = "calling"  inside _process_translation, in requests.post         *)
(*   pc = "exited"   run() has returned                                    *)
(* A task is (text, source_language); id numbers the utterance it was      *)
(* submitted for and is not read by the program.                           *)

NoTask == [text |-> <<>>, lang |-> "", id |-> 0]

\* No payload has been built.
NoPayload == [model |-> "", prompt |-> <<>>, stream |-> FALSE]

\* TranslationWorker.__init__ followed by start()
NewWorker(name) ==
    [model_name |-> name, request_queue |-> <<>>, is_running |-> TRUE,
     pc |-> "loop", task |-> NoTask]

\* add_translation_task: the new value of request_queue
add_translation_task(request_queue, text, source_language, id) ==
    IF text /= <<>> /\ Strip(text) /= <<>>
    THEN Append(request_queue, [text |-> text, lang |-> source_language, id |-> id])
    ELSE request_queue

\* A queued signal delivery to the GUI thread.
Event(sig, text, translation, lang, error, id) ==
    [sig |-> sig, text |-> text, translation |-> translation, lang |-> lang,
     error |-> error, id |-> id]

\* _process_translation: the signal emitted for task under the given
\* outcome of requests.post / response.json
process_translation(task, outcome, response) ==
    IF outcome = "ok"
    THEN Event("translation_finished", task.text,
               clean_translation(Strip(response)), task.lang, "", task.id)
    ELSE Event("translation_failed", task.text, <<>>, "", outcome, task.id)

---------------------------------------------------------------------------
(* Actions of Spec.                                                        *)

\* The recogniser thread emits text_recognized (src/translation.py:254); the
\* slot runs later, on the GUI thread.
Recognize(text, lang) ==
    /\ n_recognized < MaxUtterances
    /\ n_recognized' = n_recognized + 1
    /\ gui_events' = Append(gui_events,
                            Event("text_recognized", text, <<>>, lang, "", n_recognized + 1))
    /\ recognized' = Append(recognized, << text, lang >>)
    /\ UNCHANGED << previous_subtitle, current_subtitle, model_name,
                    translation_worker, gui_pc, workers, n_set_model, cur_id,
                    wrote_by, wrote_text, last_handled, accepted, result_log,
                    failed >>
    /\ UNCHANGED << seg_vars, clean_vars, rec_vars, speech_vars, prompt_vars, capture_vars >>

\* The GUI thread runs on_speech_recognized for the next queued event.
HandleRecognized ==
    /\ gui_pc = "idle"
    /\ gui_events /= <<>>
    /\ Head(gui_events).sig = "text_recognized"
    /\ LET e == Head(gui_events)
           q == workers[translation_worker].request_queue
           q2 == add_translation_task(q, e.text, e.lang, e.id)
       IN  /\ previous_subtitle' = recognized_previous(previous_subtitle, current_subtitle)
           /\ current_subtitle' = recognized_current(e.text, e.lang)
           /\ workers' = [workers EXCEPT ![translation_worker].request_queue = q2]
           /\ accepted' = IF q2 /= q THEN accepted \cup {e.id} ELSE accepted
           /\ cur_id' = e.id
    /\ wrote_by' = 0
    /\ wrote_text' = <<>>
    /\ gui_events' = Tail(gui_events)
    /\ UNCHANGED << model_name, translation_worker, gui_pc, n_recognized,
                    n_set_model, last_handled, result_log, recognized, failed >>
    /\ UNCHANGED << seg_vars, clean_vars, rec_vars, speech_vars, prompt_vars, capture_vars >>

\* The GUI thread runs on_translation_finished or on_translation_failed for
\* the next queued event.
HandleResult ==
    /\ gui_pc = "idle"
    /\ gui_events /= <<>>
    /\ Head(gui_events).sig \in {"translation_finished", "translation_failed"}
    /\ LET e == Head(gui_events)
           new == IF e.sig = "translation_finished"
                  THEN on_translation_finished(current_subtitle, e.text, e.translation)
                  ELSE on_translation_failed(current_subtitle, e.text)
           wrote == new /= current_subtitle
       IN  /\ current_subtitle' = new
           /\ wrote_by' = IF wrote THEN e.id ELSE wrote_by
           /\ wrote_text' = IF wrote THEN e.text ELSE wrote_text
           /\ last_handled' = [sig |-> e.sig,
                               matched |-> current_subtitle.original = e.text]
    /\ gui_events' = Tail(gui_events)
    /\ UNCHANGED << previous_subtitle, model_name, translation_worker, gui_pc,
                    workers, n_recognized, n_set_model, cur_id, accepted, result_log, recognized, failed >>
    /\ UNCHANGED << seg_vars, clean_vars, rec_vars, speech_vars, prompt_vars, capture_vars >>

\* run(): the loop test passed and get() returned a task; the worker enters
\* _process_translation and issues the request.
WorkerTake(w) ==
    /\ workers[w].pc = "loop"
    /\ workers[w].is_running
    /\ workers[w].request_queue /= <<>>
    /\ workers' = [workers EXCEPT ![w].pc = "calling",
                                  ![w].task = Head(workers[w].request_queue),
                                  ![w].request_queue = Tail(workers[w].request_queue)]
    /\ UNCHANGED << previous_subtitle, current_subtitle, model_name,
                    translation_worker, gui_pc, gui_events, n_recognized,
                    n_set_model, cur_id, wrote_by, wrote_text, last_handled,
                    accepted, result_log, recognized, failed >>
    /\ UNCHANGED << seg_vars, clean_vars, rec_vars, speech_vars, prompt_vars, capture_vars >>

\* The request returns or raises; _process_translation emits one signal and
\* run() is back at the top of its loop.
WorkerFinish(w, outcome, response) ==
    /\ workers[w].pc = "calling"
    /\ LET e == process_translation(workers[w].task, outcome, response)
       IN  /\ gui_events' = Append(gui_events, e)
           /\ result_log' = Append(result_log, e.id)
           /\ failed' = IF e.sig = "translation_failed" THEN failed \cup {e.id} ELSE failed
    /\ workers' = [workers EXCEPT ![w].pc = "loop", ![w].task = NoTask]
    /\ UNCHANGED << previous_subtitle, current_subtitle, model_name,
                    translation_worker, gui_pc, n_recognized, n_set_model,
                    cur_id, wrote_by, wrote_text, last_handled, accepted,
                    recognized >>
    /\ UNCHANGED << seg_vars, clean_vars, rec_vars, speech_vars, prompt_vars, capture_vars >>

\* run(): the loop test finds _is_running false and run() returns.
WorkerExit(w) ==
    /\ workers[w].pc = "loop"
    /\ ~workers[w].is_running
    /\ workers' = [workers EXCEPT ![w].pc = "exited"]
    /\ UNCHANGED << previous_subtitle, current_subtitle, model_name,
                    translation_worker, gui_pc, gui_events, n_recognized,
                    n_set_model, cur_id, wrote_by, wrote_text, last_handled,
                    accepted, result_log, recognized, failed >>
    /\ UNCHANGED << seg_vars, clean_vars, rec_vars, speech_vars, prompt_vars, capture_vars >>

\* set_model, lines 818-822: the GUI thread stores the name, calls stop()
\* and enters wait(2000).
SetModelBegin(name) ==
    /\ gui_pc = "idle"
    /\ n_set_model < MaxSetModel
    /\ n_set_model' = n_set_model + 1
    /\ model_name' = name
    /\ workers' = [workers EXCEPT ![translation_worker].is_running = FALSE]
    /\ gui_pc' = "set_model_wait"
    /\ UNCHANGED << previous_subtitle, current_subtitle, translation_worker,
                    gui_events, n_recognized, cur_id, wrote_by, wrote_text,
                    last_handled, accepted, result_log, recognized, failed >>
    /\ UNCHANGED << seg_vars, clean_vars, rec_vars, speech_vars, prompt_vars, capture_vars >>

\* _start_translation_worker: a new worker replaces the window's reference.
start_translation_worker ==
    /\ workers' = Append(workers, NewWorker(model_name))
    /\ translation_worker' = Len(workers) + 1

\* set_model, lines 822-823: wait(2000) returns because the old worker's
\* run() has returned.
SetModelJoined ==
    /\ gui_pc = "set_model_wait"
    /\ workers[translation_worker].pc = "exited"
    /\ start_translation_worker
    /\ gui_pc' = "idle"
    /\ UNCHANGED << previous_subtitle, current_subtitle, model_name, gui_events,
                    n_recognized, n_set_model, cur_id, wrote_by, wrote_text,
                    last_handled, accepted, result_log, recognized, failed >>
    /\ UNCHANGED << seg_vars, clean_vars, rec_vars, speech_vars, prompt_vars, capture_vars >>

\* set_model, lines 822-823: wait(2000) gives up while the old worker is
\* still inside its request (whose own timeout is 30 s).
SetModelTimedOut ==
    /\ gui_pc = "set_model_wait"
    /\ workers[translation_worker].pc = "calling"
    /\ start_translation_worker
    /\ gui_pc' = "idle"
    /\ UNCHANGED << previous_subtitle, current_subtitle, model_name, gui_events,
                    n_recognized, n_set_model, cur_id, wrote_by, wrote_text,
                    last_handled, accepted, result_log, recognized, failed >>
    /\ UNCHANGED << seg_vars, clean_vars, rec_vars, speech_vars, prompt_vars, capture_vars >>

---------------------------------------------------------------------------
(* Initial states, by component.                                           *)

\* DraggableSubtitleWindow.__init__ (src/translation.py:402-437)
PipelineInit ==
    /\ previous_subtitle = EmptySubtitle
    /\ current_subtitle = EmptySubtitle
    /\ model_name = "qwen2.5:3b"
    /\ workers = << NewWorker("qwen2.5:3b") >>
    /\ translation_worker = 1
    /\ gui_pc = "idle"
    /\ gui_events = <<>>
    /\ n_recognized = 0
    /\ n_set_model = 0
    /\ cur_id = 0
    /\ wrote_by = 0
    /\ wrote_text = <<>>
    /\ last_handled = [sig |-> "none", matched |-> FALSE]
    /\ accepted = {}
    /\ result_log = <<>>
    /\ recognized = <<>>
    /\ failed = {}

\* WhisperSpeechRecognizer.__init__ (src/translation.py:43-51)
SegInit ==
    /\ audio_buffer = <<>>
    /\ silence_frames = 0
    /\ is_speaking = FALSE
    /\ n_frames = 0
    /\ utterances = 0
    /\ emitted = <<>>
    /\ last_closure = "none"
    /\ ever_loud = FALSE
    /\ run_shape = "loud"
    /\ run_D = 0
    /\ run_S = 0
    /\ run_low = FALSE
    /\ carry = "none"

CleanIdle ==
    /\ cl_in = <<>>
    /\ cl_first = <<>>
    /\ cl_second = <<>>
    /\ cl_removed = <<>>
    /\ cl_calls = 0

\* Threads that call toggle_recording: the GUI thread (the start button,
\* src/translation.py:523) and the keyboard listener's thread (F2,
\* src/translation.py:968-969).
Threads == {"gui", "keyboard"}

\* DraggableSubtitleWindow.__init__ (src/translation.py:406, 417)
RecInit ==
    /\ is_recording = FALSE
    /\ speech_recognizer = 0
    /\ recognizers = <<>>
    /\ togglers = [t \in Threads |-> [pc |-> "idle", target |-> 0]]
    /\ probe = [t \in Threads |-> "none"]

\* _process_translation has not been called.
PromptIdle ==
    /\ pt_task = << <<>>, "" >>
    /\ pt_payload = NoPayload

\* WhisperSpeechRecognizer.__init__ (src/translation.py:55-59) followed by
\* start(): the queue is empty and no frame has been captured.
CaptureInit ==
    /\ audio_queue = <<>>
    /\ capture_running = TRUE
    /\ capture_pc = "loop"
    /\ n_captured = 0
    /\ consumed = <<>>
    /\ captured_running = <<>>
    /\ busy_frames = {}

\* No call of _process_speech has been made and no temporary file exists.
SpeechInit ==
    /\ temp_files = {}
    /\ temp_path = 0
    /\ speech_pc = "idle"
    /\ n_speech = 0
    /\ speech_signals = <<>>
    /\ transcribed = <<>>

---------------------------------------------------------------------------
(* Spec: the subtitle tracker and the translation workers.                 *)

Init == PipelineInit /\ SegInit /\ CleanIdle /\ RecInit /\ SpeechInit /\ PromptIdle /\ CaptureInit

Next ==
    \/ \E r \in Recognitions : Recognize(r[1], r[2])
    \/ HandleRecognized
    \/ HandleResult
    \/ \E w \in DOMAIN workers : WorkerTake(w)
    \/ \E w \in DOMAIN workers, outcome \in Outcomes, response \in Responses :
          WorkerFinish(w, outcome, response)
    \/ \E w \in DOMAIN workers : WorkerExit(w)
    \/ \E name \in Models : SetModelBegin(name)
    \/ SetModelJoined
    \/ SetModelTimedOut

Spec == Init /\ [][Next]_vars

\* SpecLive: Spec under fair scheduling. The GUI thread's event loop runs
\* every queued slot and wait(2000) in set_model returns; a worker thread
\* that can take a task or leave its loop does so, and it does not stay in
\* requests.post for ever: the call has timeout=30 (src/translation.py:349)
\* and raises Timeout at the latest then. Each thread is sequential: at most
\* one of its steps is enabled at a time.
GuiStep ==
    \/ HandleRecognized
    \/ HandleResult
    \/ SetModelJoined
    \/ SetModelTimedOut

WorkerStep(w) ==
    /\ w \in DOMAIN workers
    /\ \/ WorkerTake(w)
       \/ \E response \in Responses : WorkerFinish(w, "timeout", response)
       \/ WorkerExit(w)

Fairness ==
    /\ WF_vars(GuiStep)
    /\ \A w \in 1..(MaxSetModel + 1) : WF_vars(WorkerStep(w))

SpecLive == Init /\ [][Next]_vars /\ Fairness

---------------------------------------------------------------------------
(* Claims about the subtitle tracker and the translation workers (Spec).   *)

\* The GUI thread's step that runs the slot of the queued signal sig.
Handles(sig) ==
    /\ gui_pc = "idle"
    /\ gui_events /= <<>>
    /\ Head(gui_events).sig = sig
    /\ gui_events' = Tail(gui_events)

\* C1: whatever recognitions came before, on_translation_finished(original=X)
\* leaves current_subtitle, and so current.translation, unchanged whenever
\* current.original /= X.
C1_StaleFinishedIsNoOp ==
    [][ (Handles("translation_finished")
          /\ Head(gui_events).text /= current_subtitle.original)
        => current_subtitle' = current_subtitle ]_vars

\* C1's case: the second utterance is current and still pending after the
\* late translation of the first one has been delivered and dropped.
C1_Witness ==
    /\ last_handled.sig = "translation_finished"
    /\ ~last_handled.matched
    /\ cur_id = 2
    /\ current_subtitle.translation = PendingMarker

\* C2 as stated: current.translation is only ever written by the result of
\* the task submitted for the utterance instance that is in the current
\* slot, texts being allowed to repeat.
C2_OnlyCurrentInstanceWrites ==
    wrote_by /= 0 => wrote_by = cur_id

\* C2 amended: current.translation is only ever written by a result whose
\* original text equals the text in the current slot; a result for an older
\* utterance never changes the translation of a newer one with another text.
C2_OnlyEqualTextWrites ==
    wrote_by /= 0 => wrote_text = current_subtitle.original

\* C2's case: the result of utterance 1 has written the slot of utterance 2.
C2_Witness ==
    /\ wrote_by = 1
    /\ cur_id = 2
    /\ current_subtitle.translation /= PendingMarker

InFlight == { w \in DOMAIN workers : workers[w].pc = "calling" }

\* C5: at every moment at most one worker has a task taken from a queue,
\* that is, at most one external translation call is in flight, whatever
\* the interleaving of add_translation_task, worker steps and set_model.
C5_AtMostOneInFlight ==
    Cardinality(InFlight) <= 1

Results(t) == { i \in DOMAIN result_log : result_log[i] = t }

\* C6: tasks are processed strictly FIFO: result signals are emitted in the
\* order of submission, and no task's processing starts before the result
\* of every task submitted before it has been emitted.
C6_StrictFifo ==
    /\ \A i, j \in DOMAIN result_log : i < j => result_log[i] < result_log[j]
    /\ \A w \in InFlight :
          \A t \in accepted : t < workers[w].task.id => Results(t) /= {}

\* No step of any thread can produce a further result signal.
Quiescent ==
    /\ gui_pc = "idle"
    /\ \A w \in DOMAIN workers :
          \/ workers[w].pc = "exited"
          \/ /\ workers[w].pc = "loop"
             /\ workers[w].is_running
             /\ workers[w].request_queue = <<>>

\* C7: every task accepted by add_translation_task produces exactly one
\* result signal: never two, and one once the workers have nothing left to
\* do, whatever the interleaving with set_model.
C7_ExactlyOneResult ==
    /\ \A t \in accepted : Cardinality(Results(t)) <= 1
    /\ Quiescent => \A t \in accepted : Cardinality(Results(t)) = 1

\* C16: a failed task (timeout, connection error, non-200 status, any other
\* exception) emits translation_failed carrying the task's own text, never
\* translation_finished, and only once (no retry); and it does not stop the
\* worker: once the workers have nothing left to do, every task accepted
\* after a failed one has been processed too.
C16_FailureReportedNotFatal ==
    /\ \A i \in DOMAIN gui_events :
          LET e == gui_events[i]
          IN  /\ e.sig = "translation_failed" =>
                    e.id \in failed /\ e.text = recognized[e.id][1]
              /\ e.sig = "translation_finished" => e.id \notin failed
    /\ \A t \in failed : Cardinality(Results(t)) = 1
    /\ Quiescent =>
          \A t \in failed : \A u \in accepted : u > t => Results(u) /= {}

\* C17: on_translation_failed(original = X) sets current.translation to the
\* failure marker if current.original = X and changes nothing otherwise;
\* and an on_speech_recognized that follows a failure replaces the failure
\* marker by the pending marker of the new utterance.
C17_FailedWritesIffCurrent ==
    [][ /\ Handles("translation_failed") =>
              /\ current_subtitle' =
                    IF current_subtitle.original = Head(gui_events).text
                    THEN [current_subtitle EXCEPT !.translation = FailureMarker]
                    ELSE current_subtitle
              /\ previous_subtitle' = previous_subtitle
        /\ (Handles("text_recognized") /\ current_subtitle.translation = FailureMarker) =>
              current_subtitle' = [original |-> Head(gui_events).text,
                                   translation |-> PendingMarker,
                                   language |-> Head(gui_events).lang]
      ]_vars

\* C17's case: the translation of utterance 1 failed while it was current,
\* the failure marker was shown, and utterance 2 has since replaced it by
\* its pending marker.
C17_Witness ==
    /\ last_handled.sig = "translation_failed"
    /\ last_handled.matched
    /\ cur_id = 2
    /\ previous_subtitle.translation = FailureMarker
    /\ current_subtitle.translation = PendingMarker

\* C18: on_speech_recognized(text, language) moves the whole current entry,
\* as it is at that moment, to previous when current.original is non-empty
\* and leaves previous alone otherwise; sets current to (text, pending
\* marker, language); and submits exactly one task (text, language), to the
\* window's worker. Hence from the second recognition on previous.original
\* is the text of the recognition just before the latest one.
C18_RecognizedShiftsAndSubmits ==
    [][ Handles("text_recognized") =>
          LET e == Head(gui_events)
              w == translation_worker
          IN  /\ previous_subtitle' = IF current_subtitle.original /= <<>>
                                      THEN current_subtitle
                                      ELSE previous_subtitle
              /\ current_subtitle' = [original |-> e.text,
                                      translation |-> PendingMarker,
                                      language |-> e.lang]
              /\ translation_worker' = w
              /\ workers' = [workers EXCEPT ![w].request_queue =
                                Append(@, [text |-> e.text, lang |-> e.lang, id |-> e.id])]
              /\ << e.text, e.lang >> = recognized[e.id]
              /\ e.id >= 2 => previous_subtitle'.original = recognized[e.id - 1][1]
      ]_vars

\* C18's case: the second recognition has moved the first entry, with the
\* translation it had received, to previous, and its own task is queued.
C18_Witness ==
    /\ cur_id = 2
    /\ previous_subtitle.original = recognized[1][1]
    /\ previous_subtitle.translation \notin {<<>>, PendingMarker, FailureMarker}
    /\ current_subtitle = [original |-> recognized[2][1],
                           translation |-> PendingMarker,
                           language |-> recognized[2][2]]
    /\ \E i \in DOMAIN workers[translation_worker].request_queue :
          workers[translation_worker].request_queue[i].id = 2

\* C27: on_translation_finished and on_translation_failed never change
\* previous_subtitle, current.original or current.language, whether or not
\* the result matches; only on_speech_recognized writes them.
C27_OnlyRecognizedWritesOriginal ==
    [][ /\ (Handles("translation_finished") \/ Handles("translation_failed")) =>
              /\ previous_subtitle' = previous_subtitle
              /\ current_subtitle'.original = current_subtitle.original
              /\ current_subtitle'.language = current_subtitle.language
        /\ ( \/ previous_subtitle' /= previous_subtitle
             \/ current_subtitle'.original /= current_subtitle.original
             \/ current_subtitle'.language /= current_subtitle.language ) =>
              Handles("text_recognized")
      ]_vars

\* C27's case: with two entries on display, a result that matched has
\* written the translation of the current one.
C27_Witness ==
    /\ last_handled.sig = "translation_finished"
    /\ last_handled.matched
    /\ wrote_by = 2
    /\ previous_subtitle.original /= <<>>
    /\ current_subtitle.original = recognized[2][1]
    /\ current_subtitle.language = recognized[2][2]

\* C28: under fair scheduling, an utterance that stays in the current slot
\* (no later recognition supersedes it) eventually has a translation other
\* than the pending marker, whatever the interleaving with set_model.
C28_PendingEventuallyResolved ==
    \A k \in 1..MaxUtterances :
        (cur_id = k) ~>
            (cur_id /= k \/ current_subtitle.translation /= PendingMarker)

---------------------------------------------------------------------------
(* SpecClean: _clean_translation applied to an input, then to its result.  *)

\* Inputs are built from these pieces: every listed prefix, a blank and a letter.
Pieces == { remove_prefixes[i] : i \in DOMAIN remove_prefixes } \cup { <<" ">>, <<"x">> }

RECURSIVE Concats(_)
Concats(n) ==
    IF n = 0 THEN { <<>> }
    ELSE LET shorter == Concats(n - 1)
         IN  shorter \cup { s \o p : s \in shorter, p \in Pieces }

CleanInputs == Concats(MaxPieces)

CleanInit ==
    /\ cl_in \in CleanInputs
    /\ cl_first = <<>>
    /\ cl_second = <<>>
    /\ cl_removed = <<>>
    /\ cl_calls = 0

\* translation = self._clean_translation(translation)
ApplyClean ==
    /\ cl_calls = 0
    /\ cl_first' = clean_translation(cl_in)
    /\ cl_removed' = CleanTrace(cl_in).removed
    /\ cl_calls' = 1
    /\ UNCHANGED << cl_in, cl_second >>
    /\ UNCHANGED << pipeline_vars, seg_vars, rec_vars, speech_vars, prompt_vars, capture_vars >>

\* the same call on the result of the first
ApplyCleanAgain ==
    /\ cl_calls = 1
    /\ cl_second' = clean_translation(cl_first)
    /\ cl_calls' = 2
    /\ UNCHANGED << cl_in, cl_first, cl_removed >>
    /\ UNCHANGED << pipeline_vars, seg_vars, rec_vars, speech_vars, prompt_vars, capture_vars >>

InitClean == PipelineInit /\ SegInit /\ CleanInit /\ RecInit /\ SpeechInit /\ PromptIdle /\ CaptureInit

NextClean == ApplyClean \/ ApplyCleanAgain

SpecClean == InitClean /\ [][NextClean]_vars

StartsWithListed(s, from) ==
    \E i \in DOMAIN remove_prefixes : i >= from /\ StartsWith(s, remove_prefixes[i])

\* C9 as stated: prefix cleaning is idempotent,
\* _clean_translation(_clean_translation(s)) = _clean_translation(s) for every s.
C9_Idempotent ==
    cl_calls = 2 => cl_second = cl_first

\* C9 amended: cleaning is idempotent on already-clean text: whenever
\* _clean_translation(s) starts with none of the listed prefixes, cleaning it
\* again returns it unchanged.
C9_IdempotentOnClean ==
    (cl_calls = 2 /\ ~StartsWithListed(cl_first, 1)) => cl_second = cl_first

\* C9's case: a prefix was removed, the result is clean and not empty, and
\* it has been cleaned again.
C9_Witness ==
    /\ cl_calls = 2
    /\ cl_removed /= <<>>
    /\ cl_first /= <<>>
    /\ ~StartsWithListed(cl_first, 1)

\* C10 as stated: at most one prefix is stripped per call: the first listed
\* prefix the response starts with is removed and nothing more.
C10_OnlyFirstMatchStripped ==
    cl_calls >= 1 =>
        /\ Len(cl_removed) <= 1
        /\ cl_first = CleanTraceBreak(cl_in).text

\* C10 amended: one pass over the list in order: a prefix is removed when
\* the text left so far starts with it at its turn, so several prefixes can
\* be removed in one call; the first one removed is the first listed prefix
\* the input starts with, the removed positions increase, the result is
\* trimmed and starts with no prefix listed after the last one removed.
C10_OnePassInListOrder ==
    cl_calls >= 1 =>
        /\ \A i, j \in DOMAIN cl_removed : i < j => cl_removed[i] < cl_removed[j]
        /\ cl_first = Strip(cl_first)
        /\ Len(cl_first) <= Len(cl_in)
        /\ IF cl_removed = <<>>
           THEN ~StartsWithListed(cl_in, 1) /\ cl_first = Strip(cl_in)
           ELSE /\ StartsWith(cl_in, remove_prefixes[cl_removed[1]])
                /\ \A i \in 1 .. (cl_removed[1] - 1) : ~StartsWith(cl_in, remove_prefixes[i])
                /\ ~StartsWithListed(cl_first, cl_removed[Len(cl_removed)] + 1)

\* C10's case: one call removed two prefixes.
C10_Witness ==
    cl_calls >= 1 /\ Len(cl_removed) >= 2

---------------------------------------------------------------------------
(* SpecSeg: WhisperSpeechRecognizer._process_audio_stream, one action per  *)
(* pass of its loop. A frame is named by its ordinal in the stream; its     *)
(* volume is what the loop computes from its samples.                      *)

chunk_size == 1024
sample_rate == 16000
silence_threshold == 100
\* durations, in milliseconds
silence_duration_threshold == 1200
min_speech_duration == 500
max_speech_duration == 8000
short_speech_duration == 1000
short_silence_duration == 800
keep_duration == 300
\* the factor 0.7 of the short-utterance rule, in thousandths
low_volume_factor == 700

\* Volumes a frame may have: clearly low, at 0.7 * silence_threshold, at the
\* threshold, above it.
Volumes == {50, 70, 100, 150}

\* frames * chunk_size / sample_rate >= ms / 1000
DurationAtLeast(frames, ms) == frames * chunk_size * 1000 >= ms * sample_rate

\* keep_frames = int(0.3 * self.sample_rate / self.chunk_size)
keep_frames == (keep_duration * sample_rate) \div (1000 * chunk_size)

\* volume > self.silence_threshold with >= in place of >
IsLoudInclusive(volume) == volume >= silence_threshold

\* volume > self.silence_threshold
IsLoud(volume) == volume > silence_threshold

\* The closure test without the short-utterance rule.
ClosureRuleNoShort(buffered, silent, volume) ==
    IF DurationAtLeast(silent, silence_duration_threshold)
       /\ DurationAtLeast(buffered, min_speech_duration)
    THEN "silence"
    ELSE IF DurationAtLeast(buffered, max_speech_duration)
    THEN "max"
    ELSE "none"

\* The closure test with the length cap at min_speech_duration.
ClosureRuleEarlyMax(buffered, silent, volume) ==
    IF DurationAtLeast(silent, silence_duration_threshold)
       /\ DurationAtLeast(buffered, min_speech_duration)
    THEN "silence"
    ELSE IF DurationAtLeast(buffered, min_speech_duration)
    THEN "max"
    ELSE IF /\ DurationAtLeast(buffered, short_speech_duration)
            /\ DurationAtLeast(silent, short_silence_duration)
            /\ volume * 1000 < silence_threshold * low_volume_factor
    THEN "short"
    ELSE "none"

\* The closure test without the length cap.
ClosureRuleNoMax(buffered, silent, volume) ==
    IF DurationAtLeast(silent, silence_duration_threshold)
       /\ DurationAtLeast(buffered, min_speech_duration)
    THEN "silence"
    ELSE IF /\ DurationAtLeast(buffered, short_speech_duration)
            /\ DurationAtLeast(silent, short_silence_duration)
            /\ volume * 1000 < silence_threshold * low_volume_factor
    THEN "short"
    ELSE "none"

\* The closure test without the silence rule.
ClosureRuleNoSilence(buffered, silent, volume) ==
    IF DurationAtLeast(buffered, max_speech_duration)
    THEN "max"
    ELSE IF /\ DurationAtLeast(buffered, short_speech_duration)
            /\ DurationAtLeast(silent, short_silence_duration)
            /\ volume * 1000 < silence_threshold * low_volume_factor
    THEN "short"
    ELSE "none"

\* Lines 162-181: the rule that closes the utterance, "none" if none does,
\* for a buffer of `buffered` frames ending in `silent` silence frames.
ClosureRule(buffered, silent, volume) ==
    IF DurationAtLeast(silent, silence_duration_threshold)
       /\ DurationAtLeast(buffered, min_speech_duration)
    THEN "silence"
    ELSE IF DurationAtLeast(buffered, max_speech_duration)
    THEN "max"
    ELSE IF /\ DurationAtLeast(buffered, short_speech_duration)
            /\ DurationAtLeast(silent, short_silence_duration)
            /\ volume * 1000 < silence_threshold * low_volume_factor
    THEN "short"
    ELSE "none"

\* A closure that keeps the whole buffer.
KeepTailAll(buffer) == buffer

\* Lines 190-194: what stays in the buffer after a closure by rules 1-3.
KeepTail(buffer) ==
    IF Len(buffer) > keep_frames
    THEN SubSeq(buffer, Len(buffer) - keep_frames + 1, Len(buffer))
    ELSE <<>>

\* What the claims say of an input loud^D quiet^S, from the input alone.
ShortRuleMet(D, S, volume) ==
    /\ D >= 1
    /\ DurationAtLeast(D + S, short_speech_duration)
    /\ DurationAtLeast(S, short_silence_duration)
    /\ volume * 1000 < silence_threshold * low_volume_factor

\* One pass of the loop with a frame taken from audio_queue (lines 112-198).
ProcessFrame(volume) ==
    /\ n_frames < MaxFrames
    /\ utterances < MaxEmit
    /\ LET frame == n_frames + 1
           loud == IsLoud(volume)
           above == volume > silence_threshold   \* for the history variables
           silent == IF loud THEN 0 ELSE silence_frames + 1
           speaking == is_speaking \/ loud
           buffer == IF loud
                     THEN IF ~is_speaking THEN << frame >> ELSE Append(audio_buffer, frame)
                     ELSE IF is_speaking THEN Append(audio_buffer, frame) ELSE audio_buffer
           rule == IF speaking THEN ClosureRule(Len(buffer), silent, volume) ELSE "none"
           should_process == rule /= "none" /\ buffer /= <<>>
       IN  /\ n_frames' = frame
           /\ ever_loud' = (ever_loud \/ above)
           /\ carry' = IF ~is_speaking /\ speaking
                        THEN IF audio_buffer = <<>> THEN "none"
                             ELSE IF buffer = Append(audio_buffer, frame) THEN "kept"
                             ELSE "lost"
                        ELSE carry
           /\ IF should_process
              THEN /\ emitted' = buffer
                   /\ utterances' = utterances + 1
                   /\ last_closure' = rule
                   /\ audio_buffer' = KeepTail(buffer)
                   /\ is_speaking' = FALSE
                   /\ silence_frames' = 0
              ELSE /\ emitted' = <<>>
                   /\ utterances' = utterances
                   /\ last_closure' = "none"
                   /\ audio_buffer' = buffer
                   /\ is_speaking' = speaking
                   /\ silence_frames' = silent
           /\ IF above /\ run_shape = "loud"
              THEN /\ run_shape' = "loud"
                   /\ run_D' = run_D + 1
                   /\ run_S' = 0
                   /\ run_low' = FALSE
              ELSE IF ~above /\ run_shape \in {"loud", "quiet"}
              THEN /\ run_shape' = "quiet"
                   /\ run_D' = run_D
                   /\ run_S' = run_S + 1
                   /\ run_low' = (run_low \/ ShortRuleMet(run_D, run_S + 1, volume))
              ELSE /\ run_shape' = "other"
                   /\ run_D' = 0
                   /\ run_S' = 0
                   /\ run_low' = FALSE
    /\ UNCHANGED << pipeline_vars, clean_vars, rec_vars, speech_vars, prompt_vars, capture_vars >>

\* The queue-idle test without the minimum duration.
TimeoutClosesAny(buffer, speaking) ==
    speaking /\ buffer /= <<>>

\* Lines 202-204: the test under which a queue timeout closes the utterance.
TimeoutCloses(buffer, speaking) ==
    /\ speaking
    /\ buffer /= <<>>
    /\ DurationAtLeast(Len(buffer), min_speech_duration)

\* One pass of the loop in which get(timeout=0.1) raises queue.Empty
\* (lines 200-210).
QueueTimeout ==
    /\ utterances < MaxEmit
    /\ IF TimeoutCloses(audio_buffer, is_speaking)
       THEN /\ emitted' = audio_buffer
            /\ utterances' = utterances + 1
            /\ last_closure' = "timeout"
            /\ audio_buffer' = <<>>
            /\ is_speaking' = FALSE
       ELSE /\ emitted' = <<>>
            /\ last_closure' = "none"
            /\ UNCHANGED << utterances, audio_buffer, is_speaking >>
    /\ run_shape' = "other"
    /\ run_D' = 0
    /\ run_S' = 0
    /\ run_low' = FALSE
    /\ UNCHANGED << silence_frames, n_frames, ever_loud, carry >>
    /\ UNCHANGED << pipeline_vars, clean_vars, rec_vars, speech_vars, prompt_vars, capture_vars >>

InitSeg == PipelineInit /\ SegInit /\ CleanIdle /\ RecInit /\ SpeechInit /\ PromptIdle /\ CaptureInit

NextSeg ==
    \/ \E volume \in Volumes : ProcessFrame(volume)
    \/ QueueTimeout

SpecSeg == InitSeg /\ [][NextSeg]_vars

---------------------------------------------------------------------------
(* Claims about the segmenter (SpecSeg).                                   *)

\* The input so far is D frames above the threshold followed by S frames
\* not above it, taken without a queue timeout, from Idle and an empty buffer.
IsRun == run_shape \in {"loud", "quiet"}

\* C3 as stated: for such an input an utterance is emitted if and only if
\* (D >= min_speech_duration and S >= silence_duration_threshold) or
\* D >= max_speech_duration.
C3_EmitsIffSpeechLongEnough ==
    IsRun =>
        ( utterances >= 1
          <=> \/ /\ DurationAtLeast(run_D, min_speech_duration)
                 /\ DurationAtLeast(run_S, silence_duration_threshold)
              \/ DurationAtLeast(run_D, max_speech_duration) )

\* C3 amended: durations are those of the whole buffer, speech and silence
\* together, and the short-utterance rule closes too: an utterance is emitted
\* if and only if D >= 1 frame and (D + S >= min_speech_duration and
\* S >= silence_duration_threshold, or D + S >= max_speech_duration, or at
\* some silence frame the buffer held >= 1.0 s, the silence lasted >= 0.8 s
\* and the frame's volume was below 0.7 * silence_threshold).
C3_EmitsIffBufferRules ==
    IsRun =>
        ( utterances >= 1
          <=> /\ run_D >= 1
              /\ \/ /\ DurationAtLeast(run_D + run_S, min_speech_duration)
                    /\ DurationAtLeast(run_S, silence_duration_threshold)
                 \/ DurationAtLeast(run_D + run_S, max_speech_duration)
                 \/ run_low )

\* C3's case: a speech run shorter than min_speech_duration followed by
\* silence has been closed by the silence rule.
C3_Witness ==
    /\ run_shape = "quiet"
    /\ utterances = 1
    /\ last_closure = "silence"
    /\ ~DurationAtLeast(run_D, min_speech_duration)

\* C4: while no frame has exceeded silence_threshold, queue timeouts
\* included, the segmenter has never been Speaking and has never called
\* _process_speech.
C4_SilenceNeverEmits ==
    ~ever_loud => ~is_speaking /\ utterances = 0 /\ audio_buffer = <<>>

\* C4's case: silence longer than silence_duration_threshold, with a queue
\* timeout in between, and no frame above the threshold.
C4_Witness ==
    /\ ~ever_loud
    /\ run_shape = "other"
    /\ DurationAtLeast(silence_frames, silence_duration_threshold)

\* C12: every utterance closure, by the silence, max-length, short-utterance
\* or queue-idle rule, leaves silence_frames at zero.
C12_ClosureResetsSilence ==
    last_closure /= "none" => silence_frames = 0

\* C13: the frames retained by a closure are carried into the next buffer:
\* every utterance emitted begins with the frames that were retained when
\* its speech started, followed by the frame that started it.
C13_CarryOverKept ==
    emitted /= <<>> => carry /= "lost"

\* C14: right after every closure, and whenever the segmenter is Idle, the
\* buffer holds at most keep_frames = 4 frames, which is at most 0.3 s.
C14_RetainedAtMostKeepFrames ==
    (last_closure /= "none" \/ ~is_speaking) =>
        /\ Len(audio_buffer) <= keep_frames
        /\ Len(audio_buffer) * chunk_size * 1000 <= keep_duration * sample_rate

\* C14's case: a closure by one of the rules 1-3 has just retained the full
\* keep_frames frames.
C14_Witness ==
    /\ last_closure \in {"silence", "max", "short"}
    /\ ~is_speaking
    /\ Len(audio_buffer) = keep_frames

\* C15: every emitted utterance has a buffered duration of at least
\* min_speech_duration, whichever rule closed it, and of at least
\* max_speech_duration when the max-length rule closed it.
C15_EmittedDurationByRule ==
    emitted /= <<>> =>
        /\ last_closure \in {"silence", "max", "short", "timeout"}
        /\ DurationAtLeast(Len(emitted), min_speech_duration)
        /\ last_closure = "max" => DurationAtLeast(Len(emitted), max_speech_duration)

\* C15's case: an utterance has been closed by the max-length rule.
C15_Witness ==
    /\ emitted /= <<>>
    /\ last_closure = "max"

\* The input is a speech run with min_speech_duration <= D < max_speech_duration
\* followed by silence.
IsMidRun ==
    /\ run_shape = "quiet"
    /\ DurationAtLeast(run_D, min_speech_duration)
    /\ ~DurationAtLeast(run_D, max_speech_duration)

\* C19 as stated: for such a run followed by silence of at least
\* silence_duration_threshold exactly one utterance is emitted, and its
\* duration is about D (within 0.2 s of it).
C19_OneUtteranceOfAboutD ==
    IsMidRun =>
        /\ DurationAtLeast(run_S, silence_duration_threshold) => utterances = 1
        /\ emitted /= <<>> => ~DurationAtLeast(Len(emitted) - run_D, 200)

\* C19 amended: exactly one utterance is emitted, and it holds the D speech
\* frames together with every silence frame up to the one that closed it:
\* its duration is D plus that of the silence, which lasted at least 0.8 s
\* (or less if the buffer reached max_speech_duration) and at most
\* silence_duration_threshold rounded up to a frame.
C19_OneUtteranceWithItsSilence ==
    IsMidRun =>
        /\ utterances <= 1
        /\ DurationAtLeast(run_S, silence_duration_threshold) => utterances = 1
        /\ emitted /= <<>> =>
              /\ emitted = [i \in 1..(run_D + run_S) |-> i]
              /\ \/ DurationAtLeast(run_S, short_silence_duration)
                 \/ DurationAtLeast(run_D + run_S, max_speech_duration)
              /\ ~DurationAtLeast(run_S - 1, silence_duration_threshold)

\* C19's case: a speech run of at least min_speech_duration is closed by
\* the silence rule at the frame that completes silence_duration_threshold.
C19_Witness ==
    /\ IsMidRun
    /\ DurationAtLeast(run_S, silence_duration_threshold)
    /\ utterances = 1
    /\ last_closure = "silence"
    /\ Len(emitted) = run_D + run_S

\* C23: a queue poll that times out while the segmenter is Speaking with a
\* buffer of at least min_speech_duration emits the buffer at once and
\* leaves the segmenter Idle; with a shorter buffer, or while Idle, it emits
\* nothing and leaves state and buffer as they were.
C23_TimeoutClosesIffLongEnough ==
    [][ n_frames' = n_frames =>
          IF is_speaking /\ DurationAtLeast(Len(audio_buffer), min_speech_duration)
          THEN /\ emitted' = audio_buffer
               /\ utterances' = utterances + 1
               /\ ~is_speaking'
          ELSE /\ emitted' = <<>>
               /\ utterances' = utterances
               /\ is_speaking' = is_speaking
               /\ audio_buffer' = audio_buffer
      ]_vars

\* C23's case: a queue timeout has just closed an utterance.
C23_Witness ==
    /\ last_closure = "timeout"
    /\ emitted /= <<>>
    /\ ~is_speaking

\* C26: after every pass of the loop the buffer is shorter than
\* max_speech_duration (125 frames), and no emitted utterance is longer
\* than max_speech_duration.
C26_BufferBounded ==
    /\ ~DurationAtLeast(Len(audio_buffer), max_speech_duration)
    /\ Len(emitted) * chunk_size * 1000 <= max_speech_duration * sample_rate

\* C26's case: the buffer reached max_speech_duration exactly and was
\* emitted, leaving the retained frames.
C26_Witness ==
    /\ last_closure = "max"
    /\ Len(emitted) * chunk_size * 1000 = max_speech_duration * sample_rate
    /\ Len(audio_buffer) = keep_frames

---------------------------------------------------------------------------
(* SpecRec: toggle_recording / start_recording / stop_recording, called by *)
(* the GUI thread and by the keyboard listener's thread, and the recogniser *)
(* threads they start. A recogniser is                                     *)
(*   pc = "setup"         in run(), inside _setup_audio_stream             *)
(*   pc = "loop"          in _process_audio_stream, between two passes     *)
(*   pc = "transcribing"  in _process_speech, inside model.transcribe      *)
(*   pc = "exited"        run() has returned                               *)
(* acquired is the set of audio resources it holds.                        *)

\* WhisperSpeechRecognizer.__init__ followed by start()
NewRecognizer == [is_running |-> TRUE, pc |-> "setup", acquired |-> {}]

Goto(t, pc, target) == [togglers EXCEPT ![t] = [pc |-> pc, target |-> target]]

\* toggle_recording, line 619: the thread reads is_recording and enters
\* start_recording or stop_recording.
ToggleRead(t) ==
    /\ togglers[t].pc = "idle"
    /\ togglers' = Goto(t, IF ~is_recording THEN "start" ELSE "stop", 0)
    /\ probe' = [probe EXCEPT ![t] = "none"]
    /\ UNCHANGED << is_recording, speech_recognizer, recognizers >>
    /\ UNCHANGED << pipeline_vars, seg_vars, clean_vars, speech_vars, prompt_vars, capture_vars >>

\* start_recording that arms the pipeline although the probe failed
StartProbeFailedArms(t) ==
    /\ togglers[t].pc = "start"
    /\ probe' = [probe EXCEPT ![t] = "failed"]
    /\ is_recording' = TRUE
    /\ togglers' = Goto(t, "create", 0)
    /\ UNCHANGED << speech_recognizer, recognizers >>
    /\ UNCHANGED << pipeline_vars, seg_vars, clean_vars, speech_vars, prompt_vars, capture_vars >>

\* start_recording, lines 627-629: check_ollama_availability returns False
\* (a status other than 200, or an exception).
StartProbeFailed(t) ==
    /\ togglers[t].pc = "start"
    /\ probe' = [probe EXCEPT ![t] = "failed"]
    /\ togglers' = Goto(t, "idle", 0)
    /\ UNCHANGED << is_recording, speech_recognizer, recognizers >>
    /\ UNCHANGED << pipeline_vars, seg_vars, clean_vars, speech_vars, prompt_vars, capture_vars >>

\* start_recording, lines 627-635: the probe succeeded; is_recording is set.
StartArm(t) ==
    /\ togglers[t].pc = "start"
    /\ probe' = [probe EXCEPT ![t] = "ok"]
    /\ is_recording' = TRUE
    /\ togglers' = Goto(t, "create", 0)
    /\ UNCHANGED << speech_recognizer, recognizers >>
    /\ UNCHANGED << pipeline_vars, seg_vars, clean_vars, speech_vars, prompt_vars, capture_vars >>

\* start_recording, lines 638-645: the recogniser is constructed (loading
\* the Whisper model), stored in self.speech_recognizer and started.
StartThread(t) ==
    /\ togglers[t].pc = "create"
    /\ Len(recognizers) < MaxRecognizers
    /\ recognizers' = Append(recognizers, NewRecognizer)
    /\ speech_recognizer' = Len(recognizers) + 1
    /\ togglers' = Goto(t, "idle", 0)
    /\ UNCHANGED << is_recording >>
    /\ UNCHANGED << pipeline_vars, seg_vars, clean_vars, speech_vars, probe, prompt_vars, capture_vars >>

\* stop_recording, lines 651-662: is_recording is cleared; if there is a
\* recogniser, stop() clears its flag and the thread enters wait(3000).
StopBegin(t) ==
    /\ togglers[t].pc = "stop"
    /\ is_recording' = FALSE
    /\ IF speech_recognizer /= 0
       THEN /\ recognizers' = [recognizers EXCEPT ![speech_recognizer].is_running = FALSE]
            /\ togglers' = Goto(t, "stop_wait", speech_recognizer)
       ELSE /\ recognizers' = recognizers
            /\ togglers' = Goto(t, "idle", 0)
    /\ UNCHANGED << speech_recognizer >>
    /\ UNCHANGED << pipeline_vars, seg_vars, clean_vars, speech_vars, probe, prompt_vars, capture_vars >>

\* stop_recording, line 662: wait(3000) returns because run() has returned.
StopJoined(t) ==
    /\ togglers[t].pc = "stop_wait"
    /\ recognizers[togglers[t].target].pc = "exited"
    /\ togglers' = Goto(t, "idle", 0)
    /\ UNCHANGED << is_recording, speech_recognizer, recognizers >>
    /\ UNCHANGED << pipeline_vars, seg_vars, clean_vars, speech_vars, probe, prompt_vars, capture_vars >>

\* stop_recording, line 662: wait(3000) gives up while the recogniser is
\* inside model.transcribe, which cannot be interrupted.
StopTimedOut(t) ==
    /\ togglers[t].pc = "stop_wait"
    /\ recognizers[togglers[t].target].pc = "transcribing"
    /\ togglers' = Goto(t, "idle", 0)
    /\ UNCHANGED << is_recording, speech_recognizer, recognizers >>
    /\ UNCHANGED << pipeline_vars, seg_vars, clean_vars, speech_vars, probe, prompt_vars, capture_vars >>

\* What _setup_audio_stream may hold when it raises.
SetupHeld == { {}, {"audio"}, {"audio", "stream"} }

\* run() / _setup_audio_stream, lines 82-98: PyAudio handle and stream are
\* opened and run() goes on to _process_audio_stream.
SetupOk(r) ==
    /\ recognizers[r].pc = "setup"
    /\ recognizers' = [recognizers EXCEPT ![r].pc = "loop",
                                          ![r].acquired = {"audio", "stream"}]
    /\ UNCHANGED << is_recording, speech_recognizer, togglers >>
    /\ UNCHANGED << pipeline_vars, seg_vars, clean_vars, speech_vars, probe, prompt_vars, capture_vars >>

\* run() / _setup_audio_stream, lines 72-73, 100-103: an exception raised by
\* PyAudio(), by get_device_info_by_index / open, or by start_stream, with
\* what had been acquired until then; run() returns at once.
SetupFailed(r, held) ==
    /\ recognizers[r].pc = "setup"
    /\ recognizers' = [recognizers EXCEPT ![r].pc = "exited", ![r].acquired = held]
    /\ UNCHANGED << is_recording, speech_recognizer, togglers >>
    /\ UNCHANGED << pipeline_vars, seg_vars, clean_vars, speech_vars, probe, prompt_vars, capture_vars >>

\* _process_audio_stream, lines 109, 184-187: a pass of the loop closes an
\* utterance and calls _process_speech.
BeginTranscribe(r) ==
    /\ recognizers[r].pc = "loop"
    /\ recognizers[r].is_running
    /\ recognizers' = [recognizers EXCEPT ![r].pc = "transcribing"]
    /\ UNCHANGED << is_recording, speech_recognizer, togglers >>
    /\ UNCHANGED << pipeline_vars, seg_vars, clean_vars, speech_vars, probe, prompt_vars, capture_vars >>

\* _process_speech returns (lines 242-262) and the loop goes on.
EndTranscribe(r) ==
    /\ recognizers[r].pc = "transcribing"
    /\ recognizers' = [recognizers EXCEPT ![r].pc = "loop"]
    /\ UNCHANGED << is_recording, speech_recognizer, togglers >>
    /\ UNCHANGED << pipeline_vars, seg_vars, clean_vars, speech_vars, probe, prompt_vars, capture_vars >>

\* _process_audio_stream, lines 109, 216 and _cleanup: the loop test finds
\* _is_running false, the stream and the handle are released, run() returns.
RecognizerExit(r) ==
    /\ recognizers[r].pc = "loop"
    /\ ~recognizers[r].is_running
    /\ recognizers' = [recognizers EXCEPT ![r].pc = "exited", ![r].acquired = {}]
    /\ UNCHANGED << is_recording, speech_recognizer, togglers >>
    /\ UNCHANGED << pipeline_vars, seg_vars, clean_vars, speech_vars, probe, prompt_vars, capture_vars >>

InitRec == PipelineInit /\ SegInit /\ CleanIdle /\ RecInit /\ SpeechInit /\ PromptIdle /\ CaptureInit

NextRec ==
    \/ \E t \in Threads : ToggleRead(t)
    \/ \E t \in Threads : StartProbeFailed(t)
    \/ \E t \in Threads : StartArm(t)
    \/ \E t \in Threads : StartThread(t)
    \/ \E t \in Threads : StopBegin(t)
    \/ \E t \in Threads : StopJoined(t)
    \/ \E t \in Threads : StopTimedOut(t)
    \/ \E r \in DOMAIN recognizers : SetupOk(r)
    \/ \E r \in DOMAIN recognizers, held \in SetupHeld : SetupFailed(r, held)
    \/ \E r \in DOMAIN recognizers : BeginTranscribe(r)
    \/ \E r \in DOMAIN recognizers : EndTranscribe(r)
    \/ \E r \in DOMAIN recognizers : RecognizerExit(r)

SpecRec == InitRec /\ [][NextRec]_vars

Transcribing == { r \in DOMAIN recognizers : recognizers[r].pc = "transcribing" }

\* C8: at any time at most one utterance is being transcribed, whatever the
\* interleaving of the recogniser loops with start_recording and
\* stop_recording called from the GUI thread and the keyboard thread.
C8_AtMostOneTranscribing ==
    Cardinality(Transcribing) <= 1

\* The recogniser the window refers to is capturing: its thread is setting
\* up the device, in its loop or transcribing, and has not been stopped.
Capturing ==
    /\ speech_recognizer /= 0
    /\ recognizers[speech_recognizer].pc /= "exited"
    /\ recognizers[speech_recognizer].is_running

\* C29: whenever no call of toggle_recording is in progress, is_recording
\* is true only if a recogniser thread is capturing, also after the
\* recogniser's device setup failed and its run() returned on its own.
C29_RecordingFlagAgrees ==
    (is_recording /\ \A t \in Threads : togglers[t].pc = "idle") => Capturing

\* C21: is_recording becomes true, and a recogniser is created, only in a
\* call of start_recording whose readiness probe returned success; a call
\* whose probe failed or raised returns without writing is_recording and
\* without creating a recogniser.
C21_ArmedOnlyAfterProbe ==
    [][ /\ \A t \in Threads :
              (togglers[t].pc = "start" /\ probe'[t] = "failed") =>
                  /\ togglers'[t].pc = "idle"
                  /\ is_recording' = is_recording
                  /\ recognizers' = recognizers
                  /\ speech_recognizer' = speech_recognizer
        /\ (is_recording' /\ ~is_recording) =>
              \E t \in Threads : togglers[t].pc = "start" /\ probe'[t] = "ok"
        /\ Len(recognizers') > Len(recognizers) =>
              \E t \in Threads : /\ togglers[t].pc = "create"
                                  /\ togglers'[t].pc = "idle"
                                  /\ probe[t] = "ok"
      ]_vars

\* C21's case: a call of start_recording has returned after a failed probe
\* and the pipeline is not armed.
C21_Witness ==
    /\ \E t \in Threads : probe[t] = "failed" /\ togglers[t].pc = "idle"
    /\ ~is_recording
    /\ recognizers = <<>>

\* C20: every return of run(), after stop() or after a device setup failure,
\* comes after the audio resources the recogniser acquired (the PyAudio
\* handle, the stream) have been released; and a recogniser whose flag
\* stop() has cleared is not inside the loop for more than the pass in
\* progress.
C20_ReturnsAfterRelease ==
    \A r \in DOMAIN recognizers :
        recognizers[r].pc = "exited" => recognizers[r].acquired = {}

---------------------------------------------------------------------------
(* SpecSpeech: WhisperSpeechRecognizer._process_speech, called by the loop *)
(* of one recogniser for one utterance after another. A temporary file is  *)
(* named by the number of the call that created it.                        *)
(*   speech_pc = "idle"     no call in progress                            *)
(*   speech_pc = "created"  NamedTemporaryFile(delete=False) has returned  *)
(*   speech_pc = "written"  the WAV file is written; inside transcribe     *)

\* What model.transcribe may return: its "text" and "language".
TranscribeResults ==
    { [text |-> <<>>, language |-> "en"],
      [text |-> <<" ", "a", " ">>, language |-> "en"],
      [text |-> <<" ", "h", "i">>, language |-> "en"],
      [text |-> <<"U+4F60", "U+597D">>, language |-> "zh"] }

\* Lines 220-223: the call begins; NamedTemporaryFile creates the file, or
\* raises and the handler of line 260 returns.
CreateTemp(created) ==
    /\ speech_pc = "idle"
    /\ n_speech < MaxSpeech
    /\ n_speech' = n_speech + 1
    /\ IF created
       THEN /\ temp_files' = temp_files \cup {n_speech + 1}
            /\ temp_path' = n_speech + 1
            /\ speech_pc' = "created"
       ELSE /\ temp_path' = 0
            /\ UNCHANGED << temp_files, speech_pc >>
    /\ UNCHANGED << speech_signals, transcribed >>
    /\ UNCHANGED << pipeline_vars, seg_vars, clean_vars, rec_vars, prompt_vars, capture_vars >>

\* Lines 226-230: the frames are written to the file, or wave.open /
\* writeframes raises and the handler of line 260 returns.
WriteWav(written) ==
    /\ speech_pc = "created"
    /\ speech_pc' = IF written THEN "written" ELSE "idle"
    /\ UNCHANGED << temp_files, temp_path, n_speech, speech_signals, transcribed >>
    /\ UNCHANGED << pipeline_vars, seg_vars, clean_vars, rec_vars, prompt_vars, capture_vars >>

\* Lines 236-243, 260-262: model.transcribe, or reading its result, raises
\* and the handler returns.
TranscribeRaises ==
    /\ speech_pc = "written"
    /\ speech_pc' = "idle"
    /\ transcribed' = Append(transcribed, [raised |-> TRUE, text |-> <<>>])
    /\ UNCHANGED << temp_files, temp_path, n_speech, speech_signals >>
    /\ UNCHANGED << pipeline_vars, seg_vars, clean_vars, rec_vars, prompt_vars, capture_vars >>

\* A text emitted with a single character too.
is_valid_text_any(text) == text /= <<>>

\* Line 251: `if text and len(text) > 1`.
is_valid_text(text) == text /= <<>> /\ Len(text) > 1

\* Lines 236-258: model.transcribe returns; os.unlink removes the file, or
\* raises and is ignored; text_recognized is emitted for a stripped text of
\* more than one character and queued for the GUI thread.
TranscribeReturns(result, unlinked) ==
    /\ speech_pc = "written"
    /\ LET text == Strip(result.text)
           detected_language == result.language
       IN  IF is_valid_text(text)
           THEN /\ speech_signals' = Append(speech_signals, << text, detected_language >>)
                /\ n_recognized' = n_recognized + 1
                /\ gui_events' = Append(gui_events,
                                        Event("text_recognized", text, <<>>,
                                              detected_language, "", n_recognized + 1))
                /\ recognized' = Append(recognized, << text, detected_language >>)
           ELSE UNCHANGED << speech_signals, n_recognized, gui_events, recognized >>
    /\ transcribed' = Append(transcribed, [raised |-> FALSE, text |-> result.text])
    /\ temp_files' = IF unlinked THEN temp_files \ {temp_path} ELSE temp_files
    /\ speech_pc' = "idle"
    /\ UNCHANGED << temp_path, n_speech >>
    /\ UNCHANGED << previous_subtitle, current_subtitle, model_name,
                    translation_worker, gui_pc, workers, n_set_model, cur_id,
                    wrote_by, wrote_text, last_handled, accepted, result_log,
                    failed >>
    /\ UNCHANGED << seg_vars, clean_vars, rec_vars, prompt_vars, capture_vars >>

InitSpeech == PipelineInit /\ SegInit /\ CleanIdle /\ RecInit /\ SpeechInit /\ PromptIdle /\ CaptureInit

NextSpeech ==
    \/ \E created \in BOOLEAN : CreateTemp(created)
    \/ \E written \in BOOLEAN : WriteWav(written)
    \/ TranscribeRaises
    \/ \E result \in TranscribeResults, unlinked \in BOOLEAN :
          TranscribeReturns(result, unlinked)
    \/ HandleRecognized

SpecSpeech == InitSpeech /\ [][NextSpeech]_vars

\* C11: whenever _process_speech has returned, the temporary audio file it
\* created no longer exists: after a successful transcription, after an
\* empty or invalid text, and after the transcription or the writing of the
\* WAV file raised.
C11_TempFileGoneOnReturn ==
    speech_pc = "idle" => temp_files = {}


\* The call of _process_speech that has just returned failed to recognise:
\* model.transcribe raised, or its text is empty or one character once
\* stripped.
RecognitionFailed(call) == call.raised \/ Len(Strip(call.text)) <= 1

\* C25: a recognition failure (model.transcribe raises, or returns a text
\* that is empty or at most one character after trimming) emits no
\* text_recognized, leaves both subtitle slots unchanged and submits no
\* translation task, and _process_speech returns to the loop, which goes on
\* with later utterances; and no text of one character or less ever reaches
\* the GUI thread.
C25_FailureEmitsNothing ==
    [][ /\ ( /\ Len(transcribed') > Len(transcribed)
             /\ RecognitionFailed(transcribed'[Len(transcribed')]) ) =>
               /\ speech_pc' = "idle"
               /\ speech_signals' = speech_signals
               /\ gui_events' = gui_events
               /\ previous_subtitle' = previous_subtitle
               /\ current_subtitle' = current_subtitle
               /\ workers' = workers
        /\ \A i \in DOMAIN gui_events' : Len(gui_events'[i].text) > 1
        /\ current_subtitle'.original /= <<>> => Len(current_subtitle'.original) > 1
      ]_vars

\* C25's case: a call failed to recognise, a later call of the same loop
\* recognised a text, and that text alone reached the current slot.
C25_Witness ==
    /\ Len(transcribed) >= 2
    /\ RecognitionFailed(transcribed[1])
    /\ ~RecognitionFailed(transcribed[Len(transcribed)])
    /\ Len(speech_signals) = 1
    /\ current_subtitle.original = speech_signals[1][1]
    /\ previous_subtitle = EmptySubtitle
    /\ speech_pc = "idle"


\* ---------------------------------------------------------------------------
\* TranslationWorker._process_translation building its request
\* (src/translation.py:334-345).  SpecPrompt calls it once with each text and
\* each source language of a bounded set.
\* ---------------------------------------------------------------------------

\* Longest text handed to _process_translation.
MaxTextLen == 3

\* Characters of the texts: two letters that spell a language code, a CJK
\* character and the colon the prefixes end with.
PromptChars == {"z", "h", "U+4F60", ":"}

\* The recognised texts: on_speech_recognized only receives texts longer than
\* one character (src/translation.py:251).
PromptTexts == UNION { [1..n -> PromptChars] : n \in 2..MaxTextLen }

\* The language codes: Whisper's codes and the "unknown" of
\* result.get("language", "unknown") (src/translation.py:243).
PromptLanguages == {"zh", "en", "ja", "ko", "fr", "unknown"}

\* "Translate this Chinese to English: " (src/translation.py:337).
ToEnglishPrefix ==
    << "T", "r", "a", "n", "s", "l", "a", "t", "e", " ", "t", "h", "i", "s",
       " ", "C", "h", "i", "n", "e", "s", "e", " ", "t", "o", " ", "E", "n",
       "g", "l", "i", "s", "h", ":", " " >>

\* "Translate this to Chinese: " (src/translation.py:339).
ToChinesePrefix ==
    << "T", "r", "a", "n", "s", "l", "a", "t", "e", " ", "t", "h", "i", "s",
       " ", "t", "o", " ", "C", "h", "i", "n", "e", "s", "e", ":", " " >>

\* A prompt that reverses the test: English is translated to Chinese and every
\* other language to English.
prompt_english_only(text, source_language) ==
    IF source_language = "en" THEN ToChinesePrefix \o text
    ELSE ToEnglishPrefix \o text

\* The prompt of src/translation.py:336-339.
prompt(text, source_language) ==
    IF source_language = "zh" THEN ToEnglishPrefix \o text
    ELSE ToChinesePrefix \o text

\* The payload of src/translation.py:341-345.
payload(model, text, source_language) ==
    [model |-> model, prompt |-> prompt(text, source_language), stream |-> FALSE]

\* _process_translation(text, source_language) builds its payload.
BuildPayload ==
    /\ pt_payload = NoPayload
    /\ pt_payload' = payload(model_name, pt_task[1], pt_task[2])
    /\ UNCHANGED pt_task
    /\ UNCHANGED << pipeline_vars, seg_vars, clean_vars, rec_vars, speech_vars, capture_vars >>

PromptInit ==
    /\ pt_task \in PromptTexts \X PromptLanguages
    /\ pt_payload = NoPayload

InitPrompt == PipelineInit /\ SegInit /\ CleanIdle /\ RecInit /\ SpeechInit /\ PromptInit /\ CaptureInit

NextPrompt == BuildPayload

SpecPrompt == InitPrompt /\ [][NextPrompt]_vars

\* C22: the prompt asks for English exactly when the source language is "zh"
\* and for Chinese for every other language, "unknown" included, and the text
\* follows the instruction unchanged.
C22_PromptDirection ==
    pt_payload /= NoPayload =>
        LET text == pt_task[1]
            prefix == IF pt_task[2] = "zh" THEN ToEnglishPrefix ELSE ToChinesePrefix
        IN /\ StartsWith(pt_payload.prompt, prefix)
           /\ Len(pt_payload.prompt) = Len(prefix) + Len(text)
           /\ SubSeq(pt_payload.prompt, Len(prefix) + 1, Len(pt_payload.prompt)) = text

\* A text whose language Whisper did not name has been given the to-Chinese
\* prompt.
C22_Witness ==
    /\ pt_payload /= NoPayload
    /\ pt_task[2] = "unknown"
    /\ StartsWith(pt_payload.prompt, ToChinesePrefix)
    /\ ~StartsWith(pt_payload.prompt, ToEnglishPrefix)

---------------------------------------------------------------------------
(* SpecCapture: the device's callback thread and the recogniser's loop     *)
(* around self.audio_queue (src/translation.py:59-65, 109-112).  A frame   *)
(* is named by its ordinal in capture order.  Which frames close an        *)
(* utterance is the segmenter's business (SpecSeg); here any pass of the   *)
(* loop may call _process_speech.                                          *)
(*   capture_pc = "loop"          at the get of line 112                   *)
(*   capture_pc = "transcribing"  inside _process_speech                   *)
(*   capture_pc = "exited"        _cleanup has closed the stream           *)

\* Frames the device captures.
MaxCaptured == 4

\* A callback that keeps one frame at most and drops what does not fit.
audio_callback_bounded(q, in_data, running) ==
    IF running /\ Len(q) < 1 THEN Append(q, in_data) ELSE q

\* audio_callback (src/translation.py:61-65): self.audio_queue after the
\* call; queue.Queue() of line 59 has no maxsize, so put never waits.
audio_callback(q, in_data, running) ==
    IF running THEN Append(q, in_data) ELSE q

\* The device's thread calls audio_callback with the next frame, whatever
\* the recogniser thread is doing, for as long as the stream is open.
Callback ==
    /\ capture_pc /= "exited"
    /\ n_captured < MaxCaptured
    /\ n_captured' = n_captured + 1
    /\ audio_queue' = audio_callback(audio_queue, n_captured + 1, capture_running)
    /\ captured_running' = IF capture_running
                           THEN Append(captured_running, n_captured + 1)
                           ELSE captured_running
    /\ busy_frames' = IF capture_running /\ capture_pc = "transcribing"
                      THEN busy_frames \cup {n_captured + 1}
                      ELSE busy_frames
    /\ UNCHANGED << capture_running, capture_pc, consumed >>
    /\ UNCHANGED << pipeline_vars, seg_vars, clean_vars, rec_vars, speech_vars, prompt_vars >>

\* Lines 109-198: a pass of the loop that gets a frame; the frame may close
\* an utterance, and the loop then calls _process_speech.
LoopGet(closes) ==
    /\ capture_pc = "loop"
    /\ capture_running
    /\ audio_queue /= <<>>
    /\ consumed' = Append(consumed, Head(audio_queue))
    /\ audio_queue' = Tail(audio_queue)
    /\ capture_pc' = IF closes THEN "transcribing" ELSE "loop"
    /\ UNCHANGED << capture_running, n_captured, captured_running, busy_frames >>
    /\ UNCHANGED << pipeline_vars, seg_vars, clean_vars, rec_vars, speech_vars, prompt_vars >>

\* Lines 112, 200-210: the get times out on an empty queue; the buffered
\* speech may be long enough to be transcribed.
LoopTimeout(closes) ==
    /\ capture_pc = "loop"
    /\ capture_running
    /\ audio_queue = <<>>
    /\ capture_pc' = IF closes THEN "transcribing" ELSE "loop"
    /\ UNCHANGED << audio_queue, capture_running, n_captured, consumed,
                    captured_running, busy_frames >>
    /\ UNCHANGED << pipeline_vars, seg_vars, clean_vars, rec_vars, speech_vars, prompt_vars >>

\* _process_speech returns to the loop.
SpeechReturns ==
    /\ capture_pc = "transcribing"
    /\ capture_pc' = "loop"
    /\ UNCHANGED << audio_queue, capture_running, n_captured, consumed,
                    captured_running, busy_frames >>
    /\ UNCHANGED << pipeline_vars, seg_vars, clean_vars, rec_vars, speech_vars, prompt_vars >>

\* stop() (src/translation.py:278-280), called on the GUI thread.
CaptureStop ==
    /\ capture_running
    /\ capture_running' = FALSE
    /\ UNCHANGED << audio_queue, capture_pc, n_captured, consumed,
                    captured_running, busy_frames >>
    /\ UNCHANGED << pipeline_vars, seg_vars, clean_vars, rec_vars, speech_vars, prompt_vars >>

\* Lines 109, 216: the loop sees _is_running cleared and _cleanup closes the
\* stream.
LoopExit ==
    /\ capture_pc = "loop"
    /\ ~capture_running
    /\ capture_pc' = "exited"
    /\ UNCHANGED << audio_queue, capture_running, n_captured, consumed,
                    captured_running, busy_frames >>
    /\ UNCHANGED << pipeline_vars, seg_vars, clean_vars, rec_vars, speech_vars, prompt_vars >>

InitCapture == PipelineInit /\ SegInit /\ CleanIdle /\ RecInit /\ SpeechInit /\ PromptIdle /\ CaptureInit

NextCapture ==
    \/ Callback
    \/ \E closes \in BOOLEAN : LoopGet(closes)
    \/ \E closes \in BOOLEAN : LoopTimeout(closes)
    \/ SpeechReturns
    \/ CaptureStop
    \/ LoopExit

SpecCapture == InitCapture /\ [][NextCapture]_vars

\* The frames of a sequence.
FramesOf(q) == { q[i] : i \in DOMAIN q }

\* C24: the capture callback never blocks and never drops a frame while the
\* recogniser is running: it can run whatever the loop is doing, the frames
\* it was handed while running, those handed during a transcription
\* included, are the frames the loop has got followed by the frames still
\* queued, in capture order and each exactly once.
C24_NoFrameLostOrReordered ==
    /\ consumed \o audio_queue = captured_running
    /\ busy_frames \subseteq FramesOf(consumed \o audio_queue)
    /\ \A i, j \in DOMAIN captured_running : i < j => captured_running[i] < captured_running[j]
    /\ (capture_pc /= "exited" /\ n_captured < MaxCaptured) => ENABLED Callback

\* C24's case: two frames were captured during a transcription and the loop
\* has got both since the call returned, after the frame that preceded them.
C24_Witness ==
    /\ capture_running
    /\ capture_pc = "loop"
    /\ Cardinality(busy_frames) >= 2
    /\ busy_frames \subseteq FramesOf(consumed)
    /\ audio_queue = <<>>

===========================================================================
